---------------------------- MODULE Spec2Model ----------------------------
(***************************************************************************)
(* A model of generate_context.py: the block-boundary scanner              *)
(* find_block_end, the structural-summary extractor extract_code_context   *)
(* and the per-file loop of generate_context_document.                     *)
(*                                                                         *)
(* Texts are TLA+ strings, read as sequences of characters; offsets are    *)
(* 0-based as in Python, so the character at offset i is SubSeq(s,i+1,i+1).*)
(***************************************************************************)
EXTENDS Integers, Sequences, FiniteSets, TLC

VARIABLES
    pc,             \* position of the running function
    content,        \* the text being scanned (find_block_end, extract_code_context)
    start,          \* find_block_end: the start argument
    block_start,    \* find_block_end: local block_start
    base_indent,    \* find_block_end: local base_indent
    pos,            \* find_block_end: local pos
    stack,          \* find_block_end: local stack (a sequence of "{")
    raised,         \* TRUE once the running function has raised
    ret,            \* the value returned
    file_path,      \* extract_code_context: the file_path argument
    summary_parts,  \* extract_code_context: local summary_parts
    repo,           \* generate_context_document: the files of the repository
    walk,           \* generate_context_document: the directories os.walk has yet to yield
    root,           \* generate_context_document: loop variable root
    files,          \* generate_context_document: the files of root yet to be iterated
    total_files,    \* generate_context_document: local total_files
    total_size,     \* generate_context_document: local total_size
    file_types,     \* generate_context_document: local file_types
    file_summaries, \* generate_context_document: local file_summaries
    printed,        \* generate_context_document: the lines printed
    document        \* generate_context_document: the document written

block_vars == <<start, block_start, base_indent, pos, stack>>
extract_vars == <<file_path, summary_parts>>
document_vars ==
    <<repo, walk, root, files, total_files, total_size, file_types, file_summaries, printed, document>>

vars == <<pc, content, raised, ret, block_vars, extract_vars, document_vars>>

-----------------------------------------------------------------------------
(* Python string primitives *)

\* s[i] for a 0-based offset i
At(s, i) == SubSeq(s, i + 1, i + 1)

\* s[a:b]
Slice(s, a, b) == SubSeq(s, a + 1, b)

\* s.find(c, from) for a one-character c: the least offset >= from, or -1
Find(s, c, from) ==
    LET hits == {i \in from..(Len(s) - 1) : At(s, i) = c}
    IN  IF hits = {} THEN -1 ELSE CHOOSE i \in hits : \A j \in hits : i <= j

\* s.startswith(p)
StartsWith(s, p) == Len(p) <= Len(s) /\ SubSeq(s, 1, Len(p)) = p

\* s.endswith(p)
EndsWith(s, p) == Len(p) <= Len(s) /\ SubSeq(s, Len(s) - Len(p) + 1, Len(s)) = p

\* the characters str.strip() and \s treat as white space
WhiteSpace == {" ", "\t", "\n", "\r", "\f"}

\* bool(s.strip()): some character of s is not white space
StripNonEmpty(s) == \E i \in 0..(Len(s) - 1) : At(s, i) \notin WhiteSpace

\* re.match(r'[ \t]*', s).group(0): the longest prefix of blanks and tabs
IndentOf(s) ==
    LET n == CHOOSE k \in 0..Len(s) :
                 /\ \A j \in 0..(k - 1) : At(s, j) \in {" ", "\t"}
                 /\ (k = Len(s) \/ At(s, k) \notin {" ", "\t"})
    IN  SubSeq(s, 1, n)

-----------------------------------------------------------------------------
(* Input texts of find_block_end *)

MaxBraceLen == 5
MaxLines == 3

BraceAlphabet == {"{", "}", ":", "a"}

RECURSIVE StringsUpTo(_, _)
StringsUpTo(alphabet, n) ==
    IF n = 0 THEN {""}
    ELSE LET shorter == StringsUpTo(alphabet, n - 1)
         IN  shorter \cup {s \o c : s \in shorter, c \in alphabet}

\* lines of an indentation-delimited text (without their line break)
IndentLines == {"    a", "     b", "    c:", "  d", "e", "", "   ", "\tf"}

RECURSIVE LinesUpTo(_)
LinesUpTo(n) ==
    IF n = 0 THEN {""}
    ELSE LET shorter == LinesUpTo(n - 1)
         IN  shorter \cup {s \o l \o "\n" : s \in shorter, l \in IndentLines}
                     \cup {s \o l : s \in { t \in shorter : t = "" \/ EndsWith(t, "\n") },
                                    l \in IndentLines \ {""}}

\* brace texts, and indentation-delimited texts under a header line
BlockTexts ==
    StringsUpTo(BraceAlphabet, MaxBraceLen) \cup {"h:\n" \o b : b \in LinesUpTo(MaxLines)}

-----------------------------------------------------------------------------
(* find_block_end(content, start) *)

InitBlock ==
    /\ content \in BlockTexts
    /\ start \in 0..Len(content)
    /\ pc = "locate"
    /\ block_start = -1
    /\ base_indent = ""
    /\ pos = 0
    /\ stack = <<>>
    /\ raised = FALSE
    /\ ret = -1
    /\ file_path = ""
    /\ summary_parts = <<>>
    /\ repo = {}
    /\ walk = <<>>
    /\ root = ""
    /\ files = {}
    /\ total_files = 0
    /\ total_size = 0
    /\ file_types = <<>>
    /\ file_summaries = <<>>
    /\ printed = <<>>
    /\ document = <<>>

\* block_start = content.find(':', start), else content.find('{', start)
LocateColonFirst(s, from) ==
    IF Find(s, ":", from) # -1 THEN Find(s, ":", from) ELSE Find(s, "{", from)

\* lines 232-236
LocateBlock ==
    /\ pc = "locate"
    /\ block_start' = LocateColonFirst(content, start)
    /\ IF block_start' = -1
       THEN pc' = "done" /\ ret' = start
       ELSE pc' = "dispatch" /\ ret' = ret
    /\ UNCHANGED <<content, start, base_indent, pos, stack, raised>>
    /\ UNCHANGED <<extract_vars, document_vars>>

\* lines 239-251: the Python-style branch up to the loop
EnterIndentBlock ==
    /\ pc = "dispatch"
    /\ At(content, block_start) = ":"
    /\ block_start' = Find(content, "\n", block_start) + 1
    /\ IF block_start' = 0
       THEN /\ pc' = "done"
            /\ ret' = start
            /\ UNCHANGED <<base_indent, pos>>
       ELSE /\ base_indent' = IndentOf(Slice(content, block_start', Len(content)))
            /\ pos' = block_start'
            /\ pc' = "indent_loop"
            /\ ret' = ret
    /\ UNCHANGED <<content, start, stack, raised>>
    /\ UNCHANGED <<extract_vars, document_vars>>

\* line 259: the line ends the block
LineEndsBlock(line, indent) == StripNonEmpty(line) /\ ~StartsWith(line, indent)

\* lines 252-262: one iteration of the while loop
IndentLine ==
    /\ pc = "indent_loop"
    /\ pos < Len(content)
    /\ LET line_start == pos
           line_end == Find(content, "\n", pos)
       IN  IF line_end = -1
           THEN pc' = "indent_end" /\ UNCHANGED <<pos, ret>>
           ELSE IF LineEndsBlock(Slice(content, line_start, line_end), base_indent)
                THEN pc' = "done" /\ ret' = line_start /\ pos' = pos
                ELSE pc' = "indent_loop" /\ pos' = line_end + 1 /\ ret' = ret
    /\ UNCHANGED <<content, start, block_start, base_indent, stack, raised>>
    /\ UNCHANGED <<extract_vars, document_vars>>

\* line 263: the loop was left by its condition or by break
IndentEnd ==
    /\ IF pc = "indent_loop" THEN pos >= Len(content) ELSE pc = "indent_end"
    /\ pc' = "done"
    /\ ret' = Len(content)
    /\ UNCHANGED <<content, start, block_start, base_indent, pos, stack, raised>>
    /\ UNCHANGED <<extract_vars, document_vars>>

\* lines 266-268
EnterBraceBlock ==
    /\ pc = "dispatch"
    /\ At(content, block_start) # ":"
    /\ stack' = <<"{">>
    /\ pos' = block_start + 1
    /\ pc' = "brace_loop"
    /\ UNCHANGED <<content, start, block_start, base_indent, raised, ret>>
    /\ UNCHANGED <<extract_vars, document_vars>>

\* line 270: the loop condition
BraceLoopGuard(p, st, s) == p < Len(s) /\ st # <<>>

\* lines 270-276: one iteration of the while loop; list.pop() raises on an empty list
BraceStep ==
    /\ pc = "brace_loop"
    /\ BraceLoopGuard(pos, stack, content)
    /\ LET char == At(content, pos)
       IN  IF char = "{"
           THEN stack' = Append(stack, char) /\ pos' = pos + 1 /\ UNCHANGED <<pc, raised>>
           ELSE IF char = "}"
                THEN IF stack = <<>>
                     THEN raised' = TRUE /\ pc' = "done" /\ UNCHANGED <<stack, pos>>
                     ELSE /\ stack' = SubSeq(stack, 1, Len(stack) - 1)
                          /\ pos' = pos + 1
                          /\ UNCHANGED <<pc, raised>>
                ELSE pos' = pos + 1 /\ UNCHANGED <<stack, pc, raised>>
    /\ UNCHANGED <<content, start, block_start, base_indent, ret>>
    /\ UNCHANGED <<extract_vars, document_vars>>

\* line 278
BraceReturn ==
    /\ pc = "brace_loop"
    /\ ~BraceLoopGuard(pos, stack, content)
    /\ pc' = "done"
    /\ ret' = pos
    /\ UNCHANGED <<content, start, block_start, base_indent, pos, stack, raised>>
    /\ UNCHANGED <<extract_vars, document_vars>>

NextBlock ==
    \/ LocateBlock
    \/ EnterIndentBlock
    \/ IndentLine
    \/ IndentEnd
    \/ EnterBraceBlock
    \/ BraceStep
    \/ BraceReturn

SpecBlock == InitBlock /\ [][NextBlock]_vars

-----------------------------------------------------------------------------
(* Python's re module: a backtracking matcher.  A pattern is a sequence of *)
(* nodes, matched left to right; alternatives are tried in order, a greedy *)
(* repeat tries the longest run first and a lazy one the shortest, as re   *)
(* does, so the match found and its groups are those re reports.           *)

\* \w and \s on the texts of the model (ASCII)
WordChars ==
    {"a", "b", "c", "d", "e", "f", "g", "h", "i", "j", "k", "l", "m",
     "n", "o", "p", "q", "r", "s", "t", "u", "v", "w", "x", "y", "z",
     "A", "B", "C", "D", "E", "F", "G", "H", "I", "J", "K", "L", "M",
     "N", "O", "P", "Q", "R", "S", "T", "U", "V", "W", "X", "Y", "Z",
     "0", "1", "2", "3", "4", "5", "6", "7", "8", "9", "_"}

\* a character class [...] and a negated one [^...]
Cls(cs) == [cs |-> cs, neg |-> FALSE]
NCls(cs) == [cs |-> cs, neg |-> TRUE]
InCls(ch, c) == (ch \in c.cs) # c.neg

Word == Cls(WordChars)                 \* \w
Space == Cls(WhiteSpace)               \* \s
Dot == NCls({"\n"})                    \* .  without DOTALL
DotAll == NCls({})                     \* .  under (?s)

Node(t, s, c, min, greedy, r, n) ==
    <<[t |-> t, s |-> s, c |-> c, min |-> min, greedy |-> greedy, r |-> r, n |-> n]>>

Lit(s) == Node("lit", s, Cls({}), 0, TRUE, <<>>, 0)          \* literal text
One(c) == Node("one", "", c, 1, TRUE, <<>>, 0)               \* one character of a class
Many(c) == Node("rep", "", c, 0, TRUE, <<>>, 0)              \* c*
Plus(c) == Node("rep", "", c, 1, TRUE, <<>>, 0)              \* c+
ManyLazy(c) == Node("rep", "", c, 0, FALSE, <<>>, 0)         \* c*?
PlusLazy(c) == Node("rep", "", c, 1, FALSE, <<>>, 0)         \* c+?
Alt(rs) == Node("alt", "", Cls({}), 0, TRUE, rs, 0)          \* r1|r2|...
Opt(r) == Alt(<<r, <<>>>>)                                   \* (?:r)?
Cap(n, r) ==                                                 \* group n: (r)
    Node("gs", "", Cls({}), 0, TRUE, <<>>, n) \o r \o Node("ge", "", Cls({}), 0, TRUE, <<>>, n)
Ahead(r) == Node("look", "", Cls({}), 0, TRUE, <<r>>, 0)     \* (?=r)
Bol == Node("bol", "", Cls({}), 0, TRUE, <<>>, 0)            \* ^ under MULTILINE
Eol == Node("eol", "", Cls({}), 0, TRUE, <<>>, 0)            \* $ under MULTILINE
EndZ == Node("end", "", Cls({}), 0, TRUE, <<>>, 0)           \* \Z

MaxGroups == 4
NoGroups == [k \in 1..MaxGroups |-> <<-1, -1>>]

\* no match (None)
Fail == [ok |-> FALSE, s |-> 0, e |-> 0, g |-> NoGroups]

\* the length of the longest run of characters of class c among the n
\* characters from offset i (found by halving, to keep the recursion shallow)
RECURSIVE RunWithin(_, _, _, _)
RunWithin(txt, c, i, n) ==
    IF n = 0 THEN 0
    ELSE IF n = 1 THEN (IF InCls(At(txt, i), c) THEN 1 ELSE 0)
    ELSE LET half == n \div 2
             left == RunWithin(txt, c, i, half)
         IN  IF left < half THEN left
             ELSE half + RunWithin(txt, c, i + half, n - half)

\* the length of the longest run of characters of class c from offset i
Run(txt, c, i) == RunWithin(txt, c, i, Len(txt) - i)

\* A thread of the matcher is [e |-> the offset reached, g |-> the groups set].
\* Paths(txt, re, a, b, threads) is the sequence of the threads that remain
\* after the nodes a..b of re have been matched from each thread, in the order
\* in which re's backtracking reaches them: its first element is the match re
\* reports.  The recursions halve their ranges to stay shallow.
RECURSIVE Paths(_, _, _, _, _), Step(_, _, _), StepEach(_, _, _, _, _), AltPaths(_, _, _, _, _)

\* the threads one node leaves of one thread, in backtracking order
Step(txt, h, th) ==
    LET i == th.e
    IN  CASE h.t = "lit" ->
                IF i + Len(h.s) <= Len(txt) /\ Slice(txt, i, i + Len(h.s)) = h.s
                THEN <<[th EXCEPT !.e = i + Len(h.s)]>> ELSE <<>>
          [] h.t = "one" ->
                IF i < Len(txt) /\ InCls(At(txt, i), h.c)
                THEN <<[th EXCEPT !.e = i + 1]>> ELSE <<>>
          [] h.t = "rep" ->
                LET most == Run(txt, h.c, i)
                IN  IF h.greedy
                    THEN [k \in 1..(most - h.min + 1) |-> [th EXCEPT !.e = i + most - k + 1]]
                    ELSE [k \in 1..(most - h.min + 1) |-> [th EXCEPT !.e = i + h.min + k - 1]]
          [] h.t = "alt" -> AltPaths(txt, h.r, 1, Len(h.r), th)
          [] h.t = "gs" -> <<[th EXCEPT !.g[h.n] = <<i, -1>>]>>
          [] h.t = "ge" -> <<[th EXCEPT !.g[h.n] = <<@[1], i>>]>>
          [] h.t = "look" ->
                IF Len(Paths(txt, h.r[1], 1, Len(h.r[1]), <<th>>)) > 0 THEN <<th>> ELSE <<>>
          [] h.t = "bol" -> IF i = 0 \/ At(txt, i - 1) = "\n" THEN <<th>> ELSE <<>>
          [] h.t = "eol" -> IF i = Len(txt) \/ At(txt, i) = "\n" THEN <<th>> ELSE <<>>
          [] h.t = "end" -> IF i = Len(txt) THEN <<th>> ELSE <<>>

\* the alternatives a..b, each matched from the thread, in their order
AltPaths(txt, rs, a, b, th) ==
    IF a > b THEN <<>>
    ELSE IF a = b THEN Paths(txt, rs[a], 1, Len(rs[a]), <<th>>)
    ELSE LET mid == (a + b) \div 2
         IN  AltPaths(txt, rs, a, mid, th) \o AltPaths(txt, rs, mid + 1, b, th)

\* Step over the threads a..b, concatenated
StepEach(txt, h, threads, a, b) ==
    IF a > b THEN <<>>
    ELSE IF a = b THEN Step(txt, h, threads[a])
    ELSE LET mid == (a + b) \div 2
         IN  StepEach(txt, h, threads, a, mid) \o StepEach(txt, h, threads, mid + 1, b)

Paths(txt, re, a, b, threads) ==
    IF a > b THEN threads
    ELSE IF a = b THEN StepEach(txt, re[a], threads, 1, Len(threads))
    ELSE LET mid == (a + b) \div 2
             first == Paths(txt, re, a, mid, threads)
         IN  IF Len(first) = 0 THEN <<>> ELSE Paths(txt, re, mid + 1, b, first)

\* the match of re on txt starting at offset i
MatchAt(txt, re, i) ==
    LET paths == Paths(txt, re, 1, Len(re), <<[e |-> i, g |-> NoGroups]>>)
    IN  IF Len(paths) = 0 THEN Fail
        ELSE [ok |-> TRUE, s |-> i, e |-> paths[1].e, g |-> paths[1].g]

\* re.match(re, txt)
Match(txt, re) == MatchAt(txt, re, 0)

\* the leftmost match starting at one of the offsets from..to (found by
\* halving, to keep the recursion shallow)
RECURSIVE SearchWithin(_, _, _, _)
SearchWithin(txt, re, from, to) ==
    IF from > to THEN Fail
    ELSE IF from = to THEN MatchAt(txt, re, from)
    ELSE LET mid == (from + to) \div 2
             left == SearchWithin(txt, re, from, mid)
         IN  IF left.ok THEN left ELSE SearchWithin(txt, re, mid + 1, to)

\* the leftmost match starting at or after from (re.search on txt[from:] with
\* the anchors of txt)
Search(txt, re, from) == SearchWithin(txt, re, from, Len(txt))

\* re.finditer(re, txt): the successive non-overlapping matches
RECURSIVE FindIter(_, _, _)
FindIter(txt, re, from) ==
    LET m == Search(txt, re, from)
    IN  IF ~m.ok THEN <<>>
        ELSE <<m>> \o FindIter(txt, re, IF m.e = m.s THEN m.e + 1 ELSE m.e)

\* m.group(0)
Whole(txt, m) == Slice(txt, m.s, m.e)

\* group n took part in the match (m.group(n) is not None)
HasGroup(m, n) == m.g[n][2] # -1

\* m.group(n), "" standing for None
Group(txt, m, n) == IF HasGroup(m, n) THEN Slice(txt, m.g[n][1], m.g[n][2]) ELSE ""

\* re.findall(re, txt) for a pattern without groups
FindAll(txt, re) ==
    LET ms == FindIter(txt, re, 0)
    IN  [k \in 1..Len(ms) |-> Whole(txt, ms[k])]

-----------------------------------------------------------------------------
(* More string primitives *)

\* sep.join(items)
RECURSIVE JoinWithin(_, _, _, _)
JoinWithin(items, sep, a, b) ==
    IF a > b THEN ""
    ELSE IF a = b THEN items[a]
    ELSE LET mid == (a + b) \div 2
         IN  JoinWithin(items, sep, a, mid) \o sep \o JoinWithin(items, sep, mid + 1, b)

Join(items, sep) == JoinWithin(items, sep, 1, Len(items))

\* s.strip()
Strip(s) ==
    LET lead == Run(s, Space, 0)
        last == IF lead = Len(s) THEN lead
                ELSE CHOOSE e \in (lead + 1)..Len(s) :
                         /\ At(s, e - 1) \notin WhiteSpace
                         /\ \A j \in e..(Len(s) - 1) : At(s, j) \in WhiteSpace
    IN  Slice(s, lead, last)

\* s.replace(old, new), old not empty
RECURSIVE Replace(_, _, _)
Replace(s, old, new) ==
    LET hits == {i \in 0..(Len(s) - Len(old)) : Slice(s, i, i + Len(old)) = old}
        k == CHOOSE i \in hits : \A j \in hits : i <= j
    IN  IF hits = {} THEN s
        ELSE Slice(s, 0, k) \o new \o Replace(Slice(s, k + Len(old), Len(s)), old, new)

\* p occurs in s
Contains(s, p) == \E i \in 0..(Len(s) - Len(p)) : Slice(s, i, i + Len(p)) = p

\* the offset of the last character c of s, or -1
LastIndexOf(s, c) ==
    LET hits == {i \in 0..(Len(s) - 1) : At(s, i) = c}
    IN  IF hits = {} THEN -1 ELSE CHOOSE i \in hits : \A j \in hits : j <= i

\* os.path.basename(path)
Basename(path) == Slice(path, LastIndexOf(path, "/") + 1, Len(path))

\* os.path.splitext(path)[1]: from the last dot of the last component, when
\* that dot does not begin the component
ExtensionOf(path) ==
    LET name == Basename(path)
        dot == LastIndexOf(name, ".")
    IN  IF dot <= 0 THEN "" ELSE Slice(name, dot, Len(name))

\* c.lower() for one character
LowerChar(c) ==
    LET k == Find("ABCDEFGHIJKLMNOPQRSTUVWXYZ", c, 0)
    IN  IF k = -1 THEN c ELSE At("abcdefghijklmnopqrstuvwxyz", k)

\* s[a:b].lower()
RECURSIVE LowerWithin(_, _, _)
LowerWithin(s, a, b) ==
    IF a >= b THEN ""
    ELSE IF a + 1 = b THEN LowerChar(At(s, a))
    ELSE LET mid == (a + b) \div 2
         IN  LowerWithin(s, a, mid) \o LowerWithin(s, mid, b)

\* s.lower()
Lower(s) == LowerWithin(s, 0, Len(s))

-----------------------------------------------------------------------------
(* extract_code_context: the patterns *)

\* (?:public|private|protected|internal)
Visibility == Alt(<<Lit("public"), Lit("private"), Lit("protected"), Lit("internal")>>)

\* line 75: r'^import .*|^from .* import .*', re.MULTILINE
PyImportRe ==
    Alt(<<Bol \o Lit("import ") \o Many(Dot),
          Bol \o Lit("from ") \o Many(Dot) \o Lit(" import ") \o Many(Dot)>>)

\* line 79: r'^using .*?;', re.MULTILINE
CsUsingRe == Bol \o Lit("using ") \o ManyLazy(Dot) \o Lit(";")

\* line 83: r'^import .*|^require\(.*\)', re.MULTILINE
JsImportRe ==
    Alt(<<Bol \o Lit("import ") \o Many(Dot),
          Bol \o Lit("require(") \o Many(Dot) \o Lit(")")>>)

\* line 90: r'namespace ([\w.]+);'
NamespaceRe == Lit("namespace ") \o Cap(1, Plus(Cls(WordChars \cup {"."}))) \o Lit(";")

\* line 96: r'(?ms)/// <summary>\s*///\s*([^<]*?)///\s*</summary>.*?
\*           (?=\s*(?:public|private|protected|internal|class|interface|enum)\s+\w+)'
XmlDocRe ==
    Lit("/// <summary>") \o Many(Space) \o Lit("///") \o Many(Space)
    \o Cap(1, ManyLazy(NCls({"<"}))) \o Lit("///") \o Many(Space) \o Lit("</summary>")
    \o ManyLazy(DotAll)
    \o Ahead(Many(Space)
             \o Alt(<<Lit("public"), Lit("private"), Lit("protected"), Lit("internal"),
                      Lit("class"), Lit("interface"), Lit("enum")>>)
             \o Plus(Space) \o Plus(Word))

\* line 100: r'(?:public|private|protected|internal)\s+(?:class|interface|enum|[\w<>]+\s+\w+)'
NextDeclRe ==
    Visibility \o Plus(Space)
    \o Alt(<<Lit("class"), Lit("interface"), Lit("enum"),
             Plus(Cls(WordChars \cup {"<", ">"})) \o Plus(Space) \o Plus(Word)>>)

\* line 105: r'(?ms)(?:public|private|protected|internal)\s+(class|interface|enum)\s+(\w+)
\*            (?:\s*:\s*([\w,\s]+))?\s*\{(.*?)\}
\*            (?=\s*(?:public|private|protected|internal|class|interface|enum|\s*$))'
CsTypeRe ==
    Visibility \o Plus(Space)
    \o Cap(1, Alt(<<Lit("class"), Lit("interface"), Lit("enum")>>)) \o Plus(Space)
    \o Cap(2, Plus(Word))
    \o Opt(Many(Space) \o Lit(":") \o Many(Space)
           \o Cap(3, Plus(Cls(WordChars \cup {","} \cup WhiteSpace))))
    \o Many(Space) \o Lit("{") \o Cap(4, ManyLazy(DotAll)) \o Lit("}")
    \o Ahead(Many(Space)
             \o Alt(<<Lit("public"), Lit("private"), Lit("protected"), Lit("internal"),
                      Lit("class"), Lit("interface"), Lit("enum"),
                      Many(Space) \o Eol>>))

\* line 124: r'(\w+)(?:\s*=\s*([^,\s}]+))?'
EnumValueRe ==
    Cap(1, Plus(Word))
    \o Opt(Many(Space) \o Lit("=") \o Many(Space)
           \o Cap(2, Plus(NCls({",", "}"} \cup WhiteSpace))))

\* line 130: r'(?ms)(?:public|private|protected|internal)\s+(?:virtual\s+)?([^\n{]+?)\s+(\w+)\s*
\*            (?:\{[^}]*\}|;)'
CsPropertyRe ==
    Visibility \o Plus(Space) \o Opt(Lit("virtual") \o Plus(Space))
    \o Cap(1, PlusLazy(NCls({"\n", "{"}))) \o Plus(Space) \o Cap(2, Plus(Word)) \o Many(Space)
    \o Alt(<<Lit("{") \o Many(NCls({"}"})) \o Lit("}"), Lit(";")>>)

\* line 141: r'(?ms)(?:public|private|protected|internal)\s+(?:virtual\s+)?([^\n{]+?)\s+(\w+)\s*
\*            \([^)]*\)\s*(?:\{[^}]*\}|;)'
CsMethodRe ==
    Visibility \o Plus(Space) \o Opt(Lit("virtual") \o Plus(Space))
    \o Cap(1, PlusLazy(NCls({"\n", "{"}))) \o Plus(Space) \o Cap(2, Plus(Word)) \o Many(Space)
    \o Lit("(") \o Many(NCls({")"})) \o Lit(")") \o Many(Space)
    \o Alt(<<Lit("{") \o Many(NCls({"}"})) \o Lit("}"), Lit(";")>>)

\* line 157: r'(?ms)^class\s+(\w+)(?:\([^)]+\))?\s*:\s*(.*?)(?=^(?:class|def|\Z))', re.MULTILINE
PyClassRe ==
    Bol \o Lit("class") \o Plus(Space) \o Cap(1, Plus(Word))
    \o Opt(Lit("(") \o Plus(NCls({")"})) \o Lit(")"))
    \o Many(Space) \o Lit(":") \o Many(Space) \o Cap(2, ManyLazy(DotAll))
    \o Ahead(Bol \o Alt(<<Lit("class"), Lit("def"), EndZ>>))

\* lines 165, 188: r'\s*"""(.*?)"""', re.DOTALL
DocstringRe ==
    Many(Space) \o Lit("\"\"\"") \o Cap(1, ManyLazy(DotAll)) \o Lit("\"\"\"")

\* line 170: r'def\s+(\w+)\s*\([^)]*\):'
PyMethodRe ==
    Lit("def") \o Plus(Space) \o Cap(1, Plus(Word)) \o Many(Space)
    \o Lit("(") \o Many(NCls({")"})) \o Lit("):")

\* line 181: r'(?ms)^def\s+(\w+)\s*\([^)]*\):\s*(.*?)(?=^(?:def|class|\Z))', re.MULTILINE
PyFunctionRe ==
    Bol \o Lit("def") \o Plus(Space) \o Cap(1, Plus(Word)) \o Many(Space)
    \o Lit("(") \o Many(NCls({")"})) \o Lit("):") \o Many(Space) \o Cap(2, ManyLazy(DotAll))
    \o Ahead(Bol \o Alt(<<Lit("def"), Lit("class"), EndZ>>))

\* line 200: r'(?ms)^class\s+(\w+)(?:\s+extends\s+\w+)?\s*\{(.*?)\}', re.MULTILINE
JsClassRe ==
    Bol \o Lit("class") \o Plus(Space) \o Cap(1, Plus(Word))
    \o Opt(Plus(Space) \o Lit("extends") \o Plus(Space) \o Plus(Word))
    \o Many(Space) \o Lit("{") \o Cap(2, ManyLazy(DotAll)) \o Lit("}")

\* line 208: r'(?:async\s+)?(\w+)\s*\([^)]*\)\s*\{'
JsMethodRe ==
    Opt(Lit("async") \o Plus(Space)) \o Cap(1, Plus(Word)) \o Many(Space)
    \o Lit("(") \o Many(NCls({")"})) \o Lit(")") \o Many(Space) \o Lit("{")

\* line 219: r'(?:export\s+)?(?:async\s+)?function\s+(\w+)\s*\([^)]*\)'
JsFunctionRe ==
    Opt(Lit("export") \o Plus(Space)) \o Opt(Lit("async") \o Plus(Space))
    \o Lit("function") \o Plus(Space) \o Cap(1, Plus(Word)) \o Many(Space)
    \o Lit("(") \o Many(NCls({")"})) \o Lit(")")

-----------------------------------------------------------------------------
(* extract_code_context: the sections *)

\* line 227: the value returned when nothing was extracted
Sentinel == "No code context extracted."

\* file_path.endswith(('.js', '.ts', '.tsx'))
IsJsPath(path) == EndsWith(path, ".js") \/ EndsWith(path, ".ts") \/ EndsWith(path, ".tsx")

\* lines 74-85: the import section appended to summary_parts, if any
ImportParts(path, text) ==
    IF EndsWith(path, ".py")
    THEN LET imports == FindAll(text, PyImportRe)
         IN  IF Len(imports) > 0 THEN <<"Imports:\n" \o Join(imports, "\n")>> ELSE <<>>
    ELSE IF EndsWith(path, ".cs")
    THEN LET imports == FindAll(text, CsUsingRe)
         IN  IF Len(imports) > 0 THEN <<"Using Statements:\n" \o Join(imports, "\n")>> ELSE <<>>
    ELSE IF IsJsPath(path)
    THEN LET imports == FindAll(text, JsImportRe)
         IN  IF Len(imports) > 0 THEN <<"Imports:\n" \o Join(imports, "\n")>> ELSE <<>>
    ELSE <<>>

\* lines 90-92
NamespaceParts(text) ==
    LET namespace_match == Search(text, NamespaceRe, 0)
    IN  IF namespace_match.ok
        THEN <<"\nNamespace: " \o Group(text, namespace_match, 1)>>
        ELSE <<>>

\* lines 95-102: the dictionary xml_docs after the first k documentation matches
RECURSIVE XmlDocsUpTo(_, _, _)
XmlDocsUpTo(text, ms, k) ==
    IF k = 0 THEN <<>>
    ELSE LET match == ms[k]
             doc == Replace(Strip(Group(text, match, 1)), "/// ", "")
             start_pos == match.e
             next_decl == Search(Slice(text, start_pos, Len(text)), NextDeclRe, 0)
             before == XmlDocsUpTo(text, ms, k - 1)
         IN  IF next_decl.ok
             THEN ((start_pos + next_decl.s) :> doc) @@ before
             ELSE before

\* a variant of the attachment in which a documentation block is attached to
\* every declaration header that follows it, not to the nearest one only
XmlDocsEveryHeader(text) ==
    LET ms == FindIter(text, XmlDocRe, 0)
        After(k) ==
            LET hs == FindIter(Slice(text, ms[k].e, Len(text)), NextDeclRe, 0)
            IN  {ms[k].e + hs[j].s : j \in 1..Len(hs)}
        Last(p) == CHOOSE k \in 1..Len(ms) :
                      /\ p \in After(k)
                      /\ \A k2 \in 1..Len(ms) : p \in After(k2) => k2 <= k
    IN  [p \in UNION {After(k) : k \in 1..Len(ms)} |->
            Replace(Strip(Group(text, ms[Last(p)], 1)), "/// ", "")]

XmlDocs(text) ==
    LET ms == FindIter(text, XmlDocRe, 0)
    IN  XmlDocsUpTo(text, ms, Len(ms))

\* type_kind.title() for the three kinds the pattern admits
Title(kind) ==
    CASE kind = "class" -> "Class"
      [] kind = "interface" -> "Interface"
      [] kind = "enum" -> "Enum"

\* lines 124-127
EnumLines(body) ==
    LET enum_values == FindIter(body, EnumValueRe, 0)
        Value(v) == Group(body, v, 1)
                    \o (IF Group(body, v, 2) # "" THEN " = " \o Group(body, v, 2) ELSE "")
    IN  IF Len(enum_values) > 0
        THEN <<"Values:\n  "
               \o Join([k \in 1..Len(enum_values) |-> Value(enum_values[k])], "\n  ")>>
        ELSE <<>>

\* lines 130-138
PropertyLines(body) ==
    LET properties == FindIter(body, CsPropertyRe, 0)
        props == [k \in 1..Len(properties) |->
                     Group(body, properties[k], 2) \o ": "
                     \o Strip(Group(body, properties[k], 1))]
    IN  IF Len(props) > 0 THEN <<"Properties:\n  " \o Join(props, "\n  ")>> ELSE <<>>

\* line 146: the method is not a property accessor
NotAccessor(method_name) ==
    ~StartsWith(method_name, "get_") /\ ~StartsWith(method_name, "set_")

\* SelectSeq for a sequence given as a function
Keep(seq, Test(_)) == SelectSeq([k \in 1..Len(seq) |-> seq[k]], Test)

\* lines 141-150
CsMethodLines(body) ==
    LET methods == FindIter(body, CsMethodRe, 0)
        Kept(meth) == NotAccessor(Group(body, meth, 2))
        kept == Keep(methods, Kept)
        meths == [k \in 1..Len(kept) |->
                     Group(body, kept[k], 2) \o "(): " \o Strip(Group(body, kept[k], 1))]
    IN  IF Len(meths) > 0 THEN <<"Methods:\n  " \o Join(meths, "\n  ")>> ELSE <<>>

\* lines 108-152: the section of one matched type
CsTypePart(text, match, xml_docs) ==
    LET type_kind == Group(text, match, 1)
        type_name == Group(text, match, 2)
        base_types == Group(text, match, 3)
        body == Group(text, match, 4)
        doc_pos == match.s
        type_info ==
            <<"\n" \o Title(type_kind) \o ": " \o type_name>>
            \o (IF base_types # "" THEN <<"Inherits/Implements: " \o Strip(base_types)>> ELSE <<>>)
            \o (IF doc_pos \in DOMAIN xml_docs
                THEN <<"Documentation: " \o xml_docs[doc_pos]>> ELSE <<>>)
            \o (IF type_kind = "enum"
                THEN EnumLines(body)
                ELSE PropertyLines(body) \o CsMethodLines(body))
    IN  Join(type_info, "\n")

\* lines 88-152
CsParts(text) ==
    LET xml_docs == XmlDocs(text)
        type_matches == FindIter(text, CsTypeRe, 0)
    IN  NamespaceParts(text)
        \o [k \in 1..Len(type_matches) |-> CsTypePart(text, type_matches[k], xml_docs)]

\* the name captured by group 1 of each match
Names(text, ms) == [k \in 1..Len(ms) |-> Group(text, ms[k], 1)]

\* lines 159-178: the section of one matched class
PyClassPart(text, match) ==
    LET class_name == Group(text, match, 1)
        class_body == Group(text, match, 2)
        docstring_match == Match(class_body, DocstringRe)
        meths == Names(class_body, FindIter(class_body, PyMethodRe, 0))
        class_info ==
            <<"\nClass: " \o class_name>>
            \o (IF docstring_match.ok
                THEN <<"Documentation: " \o Strip(Group(class_body, docstring_match, 1))>>
                ELSE <<>>)
            \o (IF Len(meths) > 0 THEN <<"Methods:\n  " \o Join(meths, "\n  ")>> ELSE <<>>)
    IN  Join(class_info, "\n")

\* lines 184-192: the entry of one matched function
PyFunctionEntry(text, match) ==
    LET func_name == Group(text, match, 1)
        func_body == Group(text, match, 2)
        docstring_match == Match(func_body, DocstringRe)
    IN  IF docstring_match.ok
        THEN func_name \o ": " \o Strip(Group(func_body, docstring_match, 1))
        ELSE func_name

\* lines 155-195
PyParts(text) ==
    LET classes == FindIter(text, PyClassRe, 0)
        functions == FindIter(text, PyFunctionRe, 0)
        funcs == [k \in 1..Len(functions) |-> PyFunctionEntry(text, functions[k])]
    IN  [k \in 1..Len(classes) |-> PyClassPart(text, classes[k])]
        \o (IF Len(funcs) > 0 THEN <<"\nFunctions:\n  " \o Join(funcs, "\n  ")>> ELSE <<>>)

\* lines 202-216: the section of one matched class
JsClassPart(text, match) ==
    LET class_name == Group(text, match, 1)
        class_body == Group(text, match, 2)
        meths == Names(class_body, FindIter(class_body, JsMethodRe, 0))
        class_info ==
            <<"\nClass: " \o class_name>>
            \o (IF Len(meths) > 0 THEN <<"Methods:\n  " \o Join(meths, "\n  ")>> ELSE <<>>)
    IN  Join(class_info, "\n")

\* lines 198-225
JsParts(text) ==
    LET classes == FindIter(text, JsClassRe, 0)
        funcs == Names(text, FindIter(text, JsFunctionRe, 0))
    IN  [k \in 1..Len(classes) |-> JsClassPart(text, classes[k])]
        \o (IF Len(funcs) > 0 THEN <<"\nFunctions:\n  " \o Join(funcs, "\n  ")>> ELSE <<>>)

\* lines 88, 155, 198: the sections of the strategy the path selects
StrategyParts(path, text) ==
    IF EndsWith(path, ".cs") THEN CsParts(text)
    ELSE IF EndsWith(path, ".py") THEN PyParts(text)
    ELSE IF IsJsPath(path) THEN JsParts(text)
    ELSE <<>>

\* a variant of the final expression without the fallback for an empty list
RenderJoined(parts) == Join(parts, "\n")

\* line 227
Render(parts) == IF Len(parts) > 0 THEN Join(parts, "\n") ELSE Sentinel

\* extract_code_context as a function of the path and the text of the file
extract_code_context(path, text) ==
    Render(ImportParts(path, text) \o StrategyParts(path, text))

-----------------------------------------------------------------------------
(* Input files of extract_code_context: texts put together from fragments  *)
(* of one language, under paths of that language and of others             *)

MaxFragments == 2

CsFragments ==
    {"using System;\nnamespace App.Core;\n",
     "/// <summary>\n/// Doc\n/// </summary>\n",
     "public class A { }\npublic enum E { X = 1, Y }\n",
     "internal class B : A {\n  public int P;\n  public int get_P();\n  public void Run();\n}\n",
     "public class C {\n  public void M() { }\n  public void N() { }\n}\n",
     "int q;\n"}

PyFragments ==
    {"import os\nfrom a import b\n",
     "class A(B):\n    \"\"\"Doc\"\"\"\n    def run(self):\n        pass\n    def get_x(self):\n        return 1\n",
     "def f(x):\n    \"\"\"Doc f\"\"\"\n    return x\n",
     "x = 1\n",
     "class K:\n    y = 2\n",
     "def g():\n    pass"}

JsFragments ==
    {"import x from 'y';\n",
     "class A extends B {\n  m(a) { }\n  n() { }\n}\n",
     "class G {\n  set_x(v) { this.x = v; }\n}\n",
     "export async function f(a) { }\n",
     "require('z')\n",
     "let v = 1;\n"}

RECURSIVE TextsOf(_, _)
TextsOf(fragments, n) ==
    IF n = 0 THEN {""}
    ELSE LET shorter == TextsOf(fragments, n - 1)
         IN  shorter \cup {t \o f : t \in shorter, f \in fragments}

\* the files: <<path, text>>
SourceFiles ==
    ({"a.cs", "a.CS"} \X TextsOf(CsFragments, MaxFragments))
    \cup ({"b.py", "b.Py"} \X TextsOf(PyFragments, MaxFragments))
    \cup ({"c.js", "c.ts", "c.tsx", "c.TSX"} \X TextsOf(JsFragments, MaxFragments))
    \cup ({"d.md", "e.jsx"} \X (TextsOf(CsFragments, 1) \cup TextsOf(PyFragments, 1)
                                \cup TextsOf(JsFragments, 1)))

-----------------------------------------------------------------------------
(* extract_code_context(file_path) *)

\* lines 68-71: the file has been read, summary_parts is empty
InitExtract ==
    /\ \E f \in SourceFiles : file_path = f[1] /\ content = f[2]
    /\ summary_parts = <<>>
    /\ pc = "imports"
    /\ raised = FALSE
    /\ ret = ""
    /\ start = 0
    /\ block_start = -1
    /\ base_indent = ""
    /\ pos = 0
    /\ stack = <<>>
    /\ repo = {}
    /\ walk = <<>>
    /\ root = ""
    /\ files = {}
    /\ total_files = 0
    /\ total_size = 0
    /\ file_types = <<>>
    /\ file_summaries = <<>>
    /\ printed = <<>>
    /\ document = <<>>

\* lines 74-85
ExtractImports ==
    /\ pc = "imports"
    /\ summary_parts' = summary_parts \o ImportParts(file_path, content)
    /\ pc' = "strategy"
    /\ UNCHANGED <<content, raised, ret, file_path, block_vars, document_vars>>

\* lines 88-152
ExtractCSharp ==
    /\ pc = "strategy"
    /\ EndsWith(file_path, ".cs")
    /\ summary_parts' = summary_parts \o CsParts(content)
    /\ pc' = "return"
    /\ UNCHANGED <<content, raised, ret, file_path, block_vars, document_vars>>

\* lines 155-195
ExtractPython ==
    /\ pc = "strategy"
    /\ ~EndsWith(file_path, ".cs")
    /\ EndsWith(file_path, ".py")
    /\ summary_parts' = summary_parts \o PyParts(content)
    /\ pc' = "return"
    /\ UNCHANGED <<content, raised, ret, file_path, block_vars, document_vars>>

\* lines 198-225
ExtractJavaScript ==
    /\ pc = "strategy"
    /\ ~EndsWith(file_path, ".cs")
    /\ ~EndsWith(file_path, ".py")
    /\ IsJsPath(file_path)
    /\ summary_parts' = summary_parts \o JsParts(content)
    /\ pc' = "return"
    /\ UNCHANGED <<content, raised, ret, file_path, block_vars, document_vars>>

\* lines 88, 155, 198: no branch is taken
ExtractNothing ==
    /\ pc = "strategy"
    /\ ~EndsWith(file_path, ".cs")
    /\ ~EndsWith(file_path, ".py")
    /\ ~IsJsPath(file_path)
    /\ pc' = "return"
    /\ UNCHANGED <<content, raised, ret, file_path, summary_parts, block_vars, document_vars>>

\* line 227
ReturnContext ==
    /\ pc = "return"
    /\ ret' = Render(summary_parts)
    /\ pc' = "done"
    /\ UNCHANGED <<content, raised, file_path, summary_parts, block_vars, document_vars>>

NextExtract ==
    \/ ExtractImports
    \/ ExtractCSharp
    \/ ExtractPython
    \/ ExtractJavaScript
    \/ ExtractNothing
    \/ ReturnContext

SpecExtract == InitExtract /\ [][NextExtract]_vars

-----------------------------------------------------------------------------
(* generate_context_document: the functions it calls *)

\* lines 45-55
should_ignore(path) ==
    LET name == Basename(path)
        ignored_dirs == {".git", ".vscode", "__pycache__", "node_modules", "bin", "obj"}
        ignored_files == {".gitignore", ".env", "context_"}
        ignored_extensions == {".pyc", ".pyo", ".pyd", ".dll", ".exe", ".log"}
    IN  \/ name \in ignored_dirs
        \/ name \in ignored_files
        \/ \E ext \in ignored_extensions : EndsWith(name, ext)
        \/ \E pattern \in ignored_files : Contains(name, pattern)

\* lines 474-502
get_file_type(path) ==
    LET ext == Lower(ExtensionOf(path))
    IN  IF ext \in {".py", ".cs", ".js", ".ts", ".tsx", ".jsx", ".java", ".cpp", ".h", ".hpp"}
        THEN "source_code"
        ELSE IF ext \in {".md", ".txt", ".rst", ".doc", ".docx", ".pdf"}
        THEN "documentation"
        ELSE IF ext \in {".json", ".yaml", ".yml", ".xml", ".ini", ".config", ".env"}
        THEN "configuration"
        ELSE IF ext \in {".csproj", ".sln", ".pyproj", ".npmrc", ".gitignore"}
        THEN "project"
        ELSE IF ext \in {".log"}
        THEN "log"
        ELSE IF Contains(Lower(path), "test") \/ Contains(Lower(path), "spec")
        THEN "test"
        ELSE "other"

Digits == "0123456789"

\* str(n) for a natural number n
RECURSIVE ToStr(_)
ToStr(n) == IF n < 10 THEN At(Digits, n) ELSE ToStr(n \div 10) \o At(Digits, n % 10)

\* f"{x:.2f}" for x = num / den: x in hundredths, a half rounded to even
Fixed2(num, den) ==
    LET q == (num * 100) \div den
        r == (num * 100) % den
        h == IF 2 * r > den \/ (2 * r = den /\ q % 2 = 1) THEN q + 1 ELSE q
    IN  ToStr(h \div 100) \o "." \o At(Digits, (h \div 10) % 10) \o At(Digits, h % 10)

\* line 468
Units == <<"B", "KB", "MB", "GB">>

\* lines 468-472: the loop from the k-th unit on, size being num / den there
RECURSIVE FormatFrom(_, _, _)
FormatFrom(num, den, k) ==
    IF k > Len(Units) THEN Fixed2(num, den) \o " TB"
    ELSE IF num < 1024 * den THEN Fixed2(num, den) \o " " \o Units[k]
    ELSE FormatFrom(num, den * 1024, k + 1)

\* lines 466-472
format_size(size) == FormatFrom(size, 1, 1)

\* the characters of the paths and type names, in code point order
Ascii == "-./0123456789ABCDEFGHIJKLMNOPQRSTUVWXYZ_abcdefghijklmnopqrstuvwxyz"

\* a < b for two strings
StrLess(a, b) ==
    LET n == IF Len(a) < Len(b) THEN Len(a) ELSE Len(b)
        diff == {i \in 0..(n - 1) : At(a, i) # At(b, i)}
        first == CHOOSE i \in diff : \A j \in diff : i <= j
    IN  IF diff = {} THEN Len(a) < Len(b)
        ELSE Find(Ascii, At(a, first), 0) < Find(Ascii, At(b, first), 0)

\* sorted(S) for a set of strings
SortedStrings(S) ==
    [k \in 1..Cardinality(S) |->
        CHOOSE x \in S : Cardinality({y \in S : StrLess(y, x)}) = k - 1]

\* s.split(c) for a one-character c
Split(s, c) ==
    LET cuts == {i \in 0..(Len(s) - 1) : At(s, i) = c}
        Cut(k) == IF k = 0 THEN -1
                  ELSE IF k > Cardinality(cuts) THEN Len(s)
                  ELSE CHOOSE i \in cuts : Cardinality({j \in cuts : j < i}) = k - 1
    IN  [k \in 1..(Cardinality(cuts) + 1) |-> Slice(s, Cut(k - 1) + 1, Cut(k))]

\* c * n
RECURSIVE Repeat(_, _)
Repeat(c, n) ==
    IF n = 0 THEN ""
    ELSE IF n = 1 THEN c
    ELSE Repeat(c, n \div 2) \o Repeat(c, n - n \div 2)

\* the sequences in seqs[a..b], concatenated
RECURSIVE Flatten(_, _, _)
Flatten(seqs, a, b) ==
    IF a > b THEN <<>>
    ELSE IF a = b THEN seqs[a]
    ELSE LET mid == (a + b) \div 2
         IN  Flatten(seqs, a, mid) \o Flatten(seqs, mid + 1, b)

\* lines 450-464: the tree is kept as the set of the <<parts, size>> added
add_to_tree(tree, parts, size) ==
    IF Len(parts) = 0 THEN tree ELSE tree \cup {<<parts, size>>}

\* lines 330-348: the texts written; "+-- ", "|-- " and "|   " stand for the
\* box-drawing branch symbols
RECURSIVE write_tree(_, _), WriteItem(_, _, _, _)
write_tree(tree, prefix) ==
    LET items == SortedStrings({e[1][1] : e \in tree})
    IN  Flatten([i \in 1..Len(items) |-> WriteItem(tree, prefix, items, i)], 1, Len(items))

\* lines 333-348: one iteration of the loop of write_tree
WriteItem(tree, prefix, items, i) ==
    LET name == items[i]
        is_last == i = Len(items)
        branch == IF is_last THEN "+-- " ELSE "|-- "
        below == {<<SubSeq(e[1], 2, Len(e[1])), e[2]>> :
                     e \in {d \in tree : d[1][1] = name /\ Len(d[1]) > 1}}
        value == CHOOSE e \in tree : e[1] = <<name>>
        new_prefix == prefix \o (IF is_last THEN "    " ELSE "|   ")
    IN  <<prefix \o branch \o name>>
        \o (IF below = {} THEN <<" (" \o format_size(value[2]) \o ")">> ELSE <<>>)
        \o <<"\n">>
        \o (IF below # {} THEN write_tree(below, new_prefix) ELSE <<>>)

\* line 437: sorted(file_summaries, by path), the paths differing
SortedSummaries(summaries) ==
    LET paths == SortedStrings({summaries[k].path : k \in 1..Len(summaries)})
    IN  [k \in 1..Len(paths) |->
            summaries[CHOOSE j \in 1..Len(summaries) : summaries[j].path = paths[k]]]

\* lines 413-416: the texts written for the overview
OverviewChunks(files_count, size) ==
    <<"Repository Overview\n",
      "==================\n\n",
      "Total Files: " \o ToStr(files_count) \o "\n",
      "Total Size: " \o format_size(size) \o "\n\n">>

\* lines 419-423: the texts written for the file types
TypeChunks(types) ==
    LET names == SortedStrings(DOMAIN types)
    IN  <<"File Types\n", "---------\n">>
        \o [k \in 1..Len(names) |-> names[k] \o ": " \o ToStr(types[names[k]]) \o " files\n"]
        \o <<"\n">>

\* lines 426-432: the texts written for the file structure
RECURSIVE TreeOf(_, _)
TreeOf(summaries, k) ==
    IF k = 0 THEN {}
    ELSE LET parts == Split(summaries[k].path, "/")
         IN  add_to_tree(TreeOf(summaries, k - 1), SubSeq(parts, 2, Len(parts)),
                         summaries[k].size)

StructureChunks(summaries) ==
    <<"File Structure\n", "-------------\n">>
    \o write_tree(TreeOf(summaries, Len(summaries)), "")
    \o <<"\n">>

\* lines 438-445: the texts written for one summary
SummaryChunks(summary) ==
    <<"\n" \o summary.path \o "\n",
      Repeat("=", Len(summary.path)) \o "\n",
      "Type: " \o summary.type \o "\n",
      "Size: " \o format_size(summary.size) \o "\n">>
    \o (IF summary.context # "" THEN <<"\nCode Context:\n", summary.context>> ELSE <<>>)
    \o <<"\n\n">>

\* lines 411-445: the texts written to the output file, in order
DocumentChunks(files_count, size, types, summaries) ==
    LET sorted == SortedSummaries(summaries)
    IN  OverviewChunks(files_count, size)
        \o TypeChunks(types)
        \o StructureChunks(summaries)
        \o <<"File Summaries\n", "--------------\n">>
        \o Flatten([k \in 1..Len(sorted) |-> SummaryChunks(sorted[k])], 1, Len(sorted))

-----------------------------------------------------------------------------
(* Repositories: the files under the working directory, with what the file *)
(* system answers for each                                                 *)

MaxRepoFiles == 3

\* a file: its directory, its name, its size in bytes and its text
RepoFiles ==
    {[dir |-> ".", name |-> "a.cs", size |-> 19, text |-> "public class A { }\n"],
     [dir |-> ".", name |-> "b.PY", size |-> 10, text |-> "import os\n"],
     [dir |-> ".", name |-> "notes.md", size |-> 1152, text |-> ""],
     [dir |-> ".", name |-> ".env", size |-> 7, text |-> ""],
     [dir |-> "./src", name |-> "c.js", size |-> 23, text |-> "class A {\n  m(a) { }\n}\n"],
     [dir |-> "./bin", name |-> "x.dll", size |-> 2048, text |-> ""]}

\* what can go wrong with a file: os.path.getsize raises ("no_size"), or
\* opening or decoding it raises ("unreadable")
StatusesOf(f) ==
    IF should_ignore(f.name) \/ should_ignore(Basename(f.dir)) THEN {"ok"}
    ELSE IF get_file_type(f.name) = "source_code" THEN {"ok", "no_size", "unreadable"}
    ELSE {"ok", "no_size"}

FileStates ==
    {[dir |-> f.dir, name |-> f.name, size |-> f.size, text |-> f.text, status |-> st] :
        f \in RepoFiles, st \in {"ok", "no_size", "unreadable"}}

Repos ==
    {r \in SUBSET {f \in FileStates :
                      f.status \in StatusesOf([dir |-> f.dir, name |-> f.name,
                                               size |-> f.size, text |-> f.text])} :
        /\ Cardinality(r) <= MaxRepoFiles
        /\ \A f, g \in r : (f.dir = g.dir /\ f.name = g.name) => f = g}

\* the orders in which a set can be listed
Orderings(S) ==
    {order \in [1..Cardinality(S) -> S] : \A x \in S : \E k \in 1..Cardinality(S) : order[k] = x}

-----------------------------------------------------------------------------
(* generate_context_document() *)

\* lines 363-366
InitDocument ==
    /\ repo \in Repos
    /\ walk = <<".">>
    /\ root = ""
    /\ files = {}
    /\ total_files = 0
    /\ total_size = 0
    /\ file_types = <<>>
    /\ file_summaries = <<>>
    /\ printed = <<>>
    /\ document = <<>>
    /\ pc = "walk"
    /\ raised = FALSE
    /\ ret = ""
    /\ content = ""
    /\ file_path = ""
    /\ summary_parts = <<>>
    /\ start = 0
    /\ block_start = -1
    /\ base_indent = ""
    /\ pos = 0
    /\ stack = <<>>

\* the directories of the repository directly under a directory
SubDirs(r, d) ==
    {f.dir : f \in {g \in r : Len(g.dir) > Len(d) /\ StartsWith(g.dir, d \o "/")
                                 /\ ~Contains(Slice(g.dir, Len(d) + 1, Len(g.dir)), "/")}}

\* lines 369-371: os.walk yields the next directory, the ignored ones among
\* its subdirectories are dropped, the others are walked next
WalkDirectory ==
    /\ pc = "walk"
    /\ walk # <<>>
    /\ root' = Head(walk)
    /\ \E order \in Orderings({d \in SubDirs(repo, Head(walk)) : ~should_ignore(Basename(d))}) :
          walk' = order \o Tail(walk)
    /\ files' = {f \in repo : f.dir = Head(walk)}
    /\ pc' = "files"
    /\ UNCHANGED <<content, raised, ret, block_vars, extract_vars, repo, total_files,
                   total_size, file_types, file_summaries, printed, document>>

\* lines 374-375
SkipIgnored ==
    /\ pc = "files"
    /\ \E f \in files :
          /\ should_ignore(f.name)
          /\ files' = files \ {f}
    /\ UNCHANGED <<pc, content, raised, ret, block_vars, extract_vars, repo, walk, root,
                   total_files, total_size, file_types, file_summaries, printed, document>>

\* file_types[file_type] += 1 on a defaultdict(int)
Counted(types, file_type) ==
    IF file_type \in DOMAIN types
    THEN [types EXCEPT ![file_type] = @ + 1]
    ELSE types @@ (file_type :> 1)

\* line 404
ErrorLine(path, status) ==
    "Error processing " \o path \o ": "
    \o (IF status = "no_size" THEN "[Errno 2] No such file or directory: '"
        ELSE "[Errno 13] Permission denied: '")
    \o path \o "'"

\* lines 377-381, 403-404: os.path.getsize raises
GetSizeRaises ==
    /\ pc = "files"
    /\ \E f \in files :
          /\ ~should_ignore(f.name)
          /\ f.status = "no_size"
          /\ file_path' = root \o "/" \o f.name
          /\ printed' = Append(printed, ErrorLine(file_path', f.status))
          /\ files' = files \ {f}
    /\ UNCHANGED <<pc, content, raised, ret, block_vars, summary_parts, repo, walk, root,
                   total_files, total_size, file_types, file_summaries, document>>

\* a variant of the loop without the try block: the exception of
\* extract_code_context leaves generate_context_document
ExtractAborts ==
    /\ pc = "files"
    /\ \E f \in files :
          /\ ~should_ignore(f.name)
          /\ f.status = "unreadable"
          /\ file_path' = root \o "/" \o f.name
          /\ get_file_type(file_path') = "source_code"
    /\ pc' = "aborted"
    /\ raised' = TRUE
    /\ UNCHANGED <<content, ret, block_vars, summary_parts, document_vars>>

\* lines 377-392, 403-404: extract_code_context raises on opening the file
ExtractRaises ==
    /\ pc = "files"
    /\ \E f \in files :
          /\ ~should_ignore(f.name)
          /\ f.status = "unreadable"
          /\ file_path' = root \o "/" \o f.name
          /\ get_file_type(file_path') = "source_code"
          /\ total_size' = total_size + f.size
          /\ total_files' = total_files + 1
          /\ file_types' = Counted(file_types, get_file_type(file_path'))
          /\ printed' = Append(printed, ErrorLine(file_path', f.status))
          /\ files' = files \ {f}
    /\ UNCHANGED <<pc, content, raised, ret, block_vars, summary_parts, repo, walk, root,
                   file_summaries, document>>

\* lines 377-401: the body of the try block runs to its end
ProcessFile ==
    /\ pc = "files"
    /\ \E f \in files :
          /\ ~should_ignore(f.name)
          /\ f.status # "no_size"
          /\ file_path' = root \o "/" \o f.name
          /\ f.status = "unreadable" => get_file_type(file_path') # "source_code"
          /\ total_size' = total_size + f.size
          /\ total_files' = total_files + 1
          /\ file_types' = Counted(file_types, get_file_type(file_path'))
          /\ file_summaries' =
                Append(file_summaries,
                       [path |-> file_path',
                        type |-> get_file_type(file_path'),
                        size |-> f.size,
                        context |-> IF get_file_type(file_path') = "source_code"
                                    THEN extract_code_context(file_path', f.text)
                                    ELSE ""])
          /\ files' = files \ {f}
    /\ UNCHANGED <<pc, content, raised, ret, block_vars, summary_parts, repo, walk, root,
                   printed, document>>

\* line 373: the files of the directory are exhausted
EndDirectory ==
    /\ pc = "files"
    /\ files = {}
    /\ pc' = "walk"
    /\ UNCHANGED <<content, raised, ret, block_vars, extract_vars, document_vars>>

\* lines 407-408: the time stamp of the run
OutputFiles == {"context_20240101_000000.txt"}

\* lines 407-448
WriteDocument ==
    /\ pc = "walk"
    /\ walk = <<>>
    /\ \E output_file \in OutputFiles :
          /\ printed' = Append(printed, "Context document generated: " \o output_file)
          /\ ret' = output_file
    /\ document' = DocumentChunks(total_files, total_size, file_types, file_summaries)
    /\ pc' = "done"
    /\ UNCHANGED <<content, raised, block_vars, extract_vars, repo, walk, root, files,
                   total_files, total_size, file_types, file_summaries>>

NextDocument ==
    \/ WalkDirectory
    \/ SkipIgnored
    \/ GetSizeRaises
    \/ ExtractRaises
    \/ ProcessFile
    \/ EndDirectory
    \/ WriteDocument

SpecDocument == InitDocument /\ [][NextDocument]_vars

-----------------------------------------------------------------------------
(* Reference notions for the properties of find_block_end, stated on the  *)
(* text alone, without the scanner's variables                            *)

\* the number of characters c of s at the offsets a..b
CountIn(s, c, a, b) == Cardinality({i \in a..b : At(s, i) = c})

\* the offsets j after the opening brace at o where the braces of o..j balance
ClosersOf(s, o) ==
    {j \in (o + 1)..(Len(s) - 1) :
        /\ At(s, j) = "}"
        /\ CountIn(s, "{", o, j) = CountIn(s, "}", o, j)}

\* the offset of the closing brace matching the opening brace at o, or -1
MatchingClose(s, o) ==
    IF ClosersOf(s, o) = {} THEN -1
    ELSE CHOOSE j \in ClosersOf(s, o) : \A k \in ClosersOf(s, o) : j <= k

\* the first opening brace at or after the start offset, or -1
OpeningBrace == Find(content, "{", start)

\* the offsets at which a line of s begins
LineStarts(s) ==
    {i \in 0..(Len(s) - 1) : i = 0 \/ At(s, i - 1) = "\n"}

\* the line of s beginning at offset l, without its line break
LineAt(s, l) ==
    LET e == Find(s, "\n", l)
    IN  Slice(s, l, IF e = -1 THEN Len(s) ELSE e)

\* the offset where the first line of the block body begins: the line after
\* the first colon at or after the start offset (0 when there is none)
BodyStart ==
    LET colon == Find(content, ":", start)
    IN  IF colon = -1 THEN 0 ELSE Find(content, "\n", colon) + 1

\* the block is indentation-delimited and its first body line is indented
\* by 4 spaces
FourSpaceBlock ==
    /\ BodyStart # 0
    /\ IndentOf(Slice(content, BodyStart, Len(content))) = "    "

\* the later lines that end a 4-space block: not blank, indented by fewer
\* than 4 spaces
EndingLines ==
    {l \in LineStarts(content) :
        /\ l > BodyStart
        /\ StripNonEmpty(LineAt(content, l))
        /\ ~StartsWith(LineAt(content, l), "    ")}

\* where the indentation boundary lies
IndentBoundary ==
    IF EndingLines = {} THEN Len(content)
    ELSE CHOOSE l \in EndingLines : \A k \in EndingLines : l <= k

\* C1: when the start offset precedes an opening brace that has a matching
\* closing brace, find_block_end returns the offset just past that closing
\* brace, nested blocks included.
C1_BalancedBoundary ==
    (/\ pc = "done"
     /\ OpeningBrace # -1
     /\ MatchingClose(content, OpeningBrace) # -1)
    => (~raised /\ ret = MatchingClose(content, OpeningBrace) + 1)

\* C1 restricted to the texts with no colon at or after the start offset
C1_BalancedBoundaryNoColon ==
    Find(content, ":", start) = -1 => C1_BalancedBoundary

\* a nested block (depth 2) was scanned without a colon in the way
C1_NestedReached ==
    /\ pc = "done"
    /\ Find(content, ":", start) = -1
    /\ OpeningBrace # -1
    /\ MatchingClose(content, OpeningBrace) > OpeningBrace + 2
    /\ At(content, OpeningBrace + 1) = "{"

\* C2: in a block whose first body line is indented by 4 spaces, the block
\* ends at the start of the first later non-blank line indented by fewer
\* than 4 spaces, wherever that line is, and at the end of the text when
\* there is none.
C2_IndentBoundary ==
    (pc = "done" /\ FourSpaceBlock) => ret = IndentBoundary

\* C2 restricted to the texts whose last line ends with a line break
C2_IndentBoundaryTerminated ==
    EndsWith(content, "\n") => C2_IndentBoundary

\* C9: the scan never raises and returns an offset between start and the
\* length of the text; when the opening brace is never closed, it returns
\* the length of the text.
C9_Total ==
    /\ ~raised
    /\ pc = "done" =>
        /\ start <= ret /\ ret <= Len(content)
        /\ (OpeningBrace # -1 /\ MatchingClose(content, OpeningBrace) = -1)
              => ret = Len(content)

\* C9 restricted to the texts with no colon at or after the start offset
C9_TotalNoColon ==
    Find(content, ":", start) = -1 => C9_Total

-----------------------------------------------------------------------------
(* Reference notions for the properties of extract_code_context, stated  *)
(* on the path, the text and the rendered result                         *)

\* the extensions named as supported
SupportedExtensions == {".cs", ".py", ".js", ".ts", ".tsx"}

\* the path with the letters of its extension in lower case
WithLowerExtension(path) ==
    LET ext == ExtensionOf(path)
    IN  Slice(path, 0, Len(path) - Len(ext)) \o Lower(ext)

\* the line of s at offset l lies in a "Methods:" section: a "Methods:" line
\* precedes it with only indented lines in between
InMethods(s, l) ==
    \E h \in LineStarts(s) :
        /\ h < l
        /\ LineAt(s, h) = "Methods:"
        /\ \A k \in LineStarts(s) : (h < k /\ k <= l) => StartsWith(LineAt(s, k), "  ")

\* the lines of the "Methods:" sections of s
MethodLinesOf(s) == {LineAt(s, l) : l \in {k \in LineStarts(s) : InMethods(s, k)}}

\* the headers of the sections that list entries
ListHeaders ==
    {"Imports:", "Using Statements:", "Values:", "Properties:", "Methods:", "Functions:"}

\* no list header of s stands without an entry on the next line
NoEmptySection(s) ==
    \A l \in LineStarts(s) :
        LineAt(s, l) \in ListHeaders =>
            LET next == l + Len(LineAt(s, l)) + 1
            IN  next < Len(s) /\ StripNonEmpty(LineAt(s, next))

\* an import, a namespace, a type or a function of the path's language is
\* recognized in the text
Recognized(path, text) ==
    LET ext == ExtensionOf(path)
    IN  CASE ext = ".cs" ->
                \/ Search(text, CsUsingRe, 0).ok
                \/ Search(text, NamespaceRe, 0).ok
                \/ Search(text, CsTypeRe, 0).ok
          [] ext = ".py" ->
                \/ Search(text, PyImportRe, 0).ok
                \/ Search(text, PyClassRe, 0).ok
                \/ Search(text, PyFunctionRe, 0).ok
          [] ext \in {".js", ".ts", ".tsx"} ->
                \/ Search(text, JsImportRe, 0).ok
                \/ Search(text, JsClassRe, 0).ok
                \/ Search(text, JsFunctionRe, 0).ok
          [] OTHER -> FALSE

\* the text between the opening brace at offset o and the closing brace that
\* balances it
BalancedBody(text, o) == Slice(text, o + 1, MatchingClose(text, o))

\* the entries of the methods declared in the balanced body of the .cs type
\* matched by m, as the "Methods:" section writes them
CsBalancedMethods(text, m) ==
    LET body == BalancedBody(text, m.g[4][1] - 1)
        methods == FindIter(body, CsMethodRe, 0)
    IN  {"  " \o Group(body, methods[k], 2) \o "(): " \o Strip(Group(body, methods[k], 1)) :
            k \in {j \in 1..Len(methods) : NotAccessor(Group(body, methods[j], 2))}}

\* the same for the class matched by m in a .js, .ts or .tsx text
JsBalancedMethods(text, m) ==
    LET body == BalancedBody(text, m.g[2][1] - 1)
        methods == FindIter(body, JsMethodRe, 0)
    IN  {"  " \o Group(body, methods[k], 1) : k \in 1..Len(methods)}

\* the types whose opening brace is balanced in the text
CsBalancedTypes(text) ==
    LET types == FindIter(text, CsTypeRe, 0)
    IN  {types[k] : k \in {j \in 1..Len(types) :
                              /\ Group(text, types[j], 1) # "enum"
                              /\ MatchingClose(text, types[j].g[4][1] - 1) # -1}}

JsBalancedTypes(text) ==
    LET classes == FindIter(text, JsClassRe, 0)
    IN  {classes[k] : k \in {j \in 1..Len(classes) :
                                MatchingClose(text, classes[j].g[2][1] - 1) # -1}}

\* C3: in a .cs, .js, .ts or .tsx file, every method declared in the body of
\* a recognized type, the body reaching to the closing brace that balances
\* its opening brace, is listed in a "Methods:" section of the result.
C3_BalancedBody ==
    pc = "done" =>
        /\ EndsWith(file_path, ".cs") =>
              \A m \in CsBalancedTypes(content) :
                  CsBalancedMethods(content, m) \subseteq MethodLinesOf(ret)
        /\ IsJsPath(file_path) =>
              \A m \in JsBalancedTypes(content) :
                  JsBalancedMethods(content, m) \subseteq MethodLinesOf(ret)

\* C4: the result is the sentinel when the extension of the path is not a
\* supported one and when nothing is recognized in the text; otherwise it is
\* not the sentinel and no list header in it stands without an entry.
C4_Sentinel ==
    pc = "done" =>
        IF ExtensionOf(file_path) \notin SupportedExtensions \/ ~Recognized(file_path, content)
        THEN ret = Sentinel
        ELSE ret # Sentinel /\ NoEmptySection(ret)

\* a text of a supported language in which nothing is recognized was given
\* the sentinel
C4_NothingRecognizedReached ==
    /\ pc = "done"
    /\ ExtensionOf(file_path) \in SupportedExtensions
    /\ content # ""
    /\ ~Recognized(file_path, content)
    /\ ret = Sentinel

\* C5: the result is the one the same text gets under the path whose
\* extension is written in lower case.
C5_CaseInsensitive ==
    pc = "done" => ret = extract_code_context(WithLowerExtension(file_path), content)

\* C6: no line of a "Methods:" section of the result names a method whose
\* name starts with get_ or set_.
C6_NoAccessorListed ==
    pc = "done" =>
        \A line \in MethodLinesOf(ret) :
            ~StartsWith(line, "  get_") /\ ~StartsWith(line, "  set_")

\* C6 restricted to the .cs strategy
C6_NoAccessorListedCs ==
    EndsWith(file_path, ".cs") => C6_NoAccessorListed

\* a .cs type declaring an accessor was rendered with a "Methods:" section
C6_CsAccessorReached ==
    /\ pc = "done"
    /\ EndsWith(file_path, ".cs")
    /\ Contains(content, " get_P()")
    /\ MethodLinesOf(ret) # {}

\* the sections of the types, in the order of summary_parts
IsTypeSection(part) ==
    StartsWith(part, "\nClass: ") \/ StartsWith(part, "\nInterface: ") \/ StartsWith(part, "\nEnum: ")

TypeSections == SelectSeq(summary_parts, IsTypeSection)

\* the offset of the nearest declaration header at or after offset i, or -1
NearestHeader(text, i) ==
    LET next_decl == Search(text, NextDeclRe, i)
    IN  IF next_decl.ok THEN next_decl.s ELSE -1

\* the offsets at which the documentation blocks of the text end
DocEnds(text) ==
    LET docs == FindIter(text, XmlDocRe, 0)
    IN  {docs[d].e : d \in 1..Len(docs)}

\* C8: in a .cs file, the section of a type has a "Documentation:" line
\* exactly when the type's header is the nearest declaration header after
\* some documentation block; so a block is attached to one declaration at
\* most, and of two types that follow a block only the first is documented.
C8_DocAttachment ==
    (pc = "done" /\ EndsWith(file_path, ".cs")) =>
        LET types == FindIter(content, CsTypeRe, 0)
        IN  /\ Len(TypeSections) = Len(types)
            /\ \A k \in 1..Len(types) :
                  Contains(TypeSections[k], "\nDocumentation: ")
                  <=> (\E e \in DocEnds(content) : NearestHeader(content, e) = types[k].s)

\* a documentation block was followed by two types: the first is rendered
\* with a "Documentation:" line, the second without
C8_TwoTypesReached ==
    /\ pc = "done"
    /\ EndsWith(file_path, ".cs")
    /\ Cardinality(DocEnds(content)) = 1
    /\ Len(TypeSections) = 2
    /\ \A e \in DocEnds(content) :
          e < Search(content, CsTypeRe, 0).s /\ ~Contains(Slice(content, 0, e), "class")
    /\ Contains(TypeSections[1], "\nDocumentation: Doc")
    /\ ~Contains(TypeSections[2], "\nDocumentation: ")

-----------------------------------------------------------------------------
(* Reference notions for the properties of generate_context_document      *)

\* the path under which the loop processes a file of the repository
PathOf(f) == f.dir \o "/" \o f.name

\* the files the loop does not skip: not ignored, in a directory that is not
\* ignored
NotIgnored(r) ==
    {f \in r : ~should_ignore(f.name) /\ (f.dir = "." \/ ~should_ignore(Basename(f.dir)))}

\* processing the file raises
Fails(f) ==
    \/ f.status = "no_size"
    \/ f.status = "unreadable" /\ get_file_type(PathOf(f)) = "source_code"

\* the document has a summary entry for the path
HasEntry(doc, path) ==
    \E k \in 1..(Len(doc) - 1) :
        /\ doc[k] = "\n" \o path \o "\n"
        /\ doc[k + 1] = Repeat("=", Len(path)) \o "\n"

\* an error was printed for the path
Logged(path) ==
    \E k \in 1..Len(printed) : StartsWith(printed[k], "Error processing " \o path \o ": ")

\* the sum of the sizes of the first k summaries
RECURSIVE SizeOf(_, _)
SizeOf(summaries, k) ==
    IF k = 0 THEN 0 ELSE summaries[k].size + SizeOf(summaries, k - 1)

\* the sum of the counts of the types in S
RECURSIVE CountOf(_, _)
CountOf(types, S) ==
    IF S = {} THEN 0
    ELSE LET t == CHOOSE x \in S : TRUE
         IN  types[t] + CountOf(types, S \ {t})

\* the directories still to be walked: those waiting and those below them
ToWalk ==
    {d \in {"."} \cup {f.dir : f \in repo} :
        \E k \in 1..Len(walk) : d = walk[k] \/ StartsWith(d, walk[k] \o "/")}

\* the work the run has left: directories to walk, files of the directory
\* at hand, and the writing of the document
Remaining ==
    (Cardinality(repo) + 2) * Cardinality(ToWalk)
    + (IF pc = "files" THEN 1 + Cardinality(files) ELSE 0)
    + (IF pc = "done" THEN 0 ELSE 1)

\* the run has a next step: a directory to walk or the document to write,
\* or the end of the directory at hand or a file of it, which is skipped,
\* summarized, or logged after its size lookup or its extraction raised
CanProceed ==
    \/ pc = "walk"
    \/ pc = "files" /\ files = {}
    \/ pc = "files" /\ \E f \in files :
          \/ should_ignore(f.name)
          \/ f.status = "no_size"
          \/ f.status = "unreadable" /\ get_file_type(root \o "/" \o f.name) = "source_code"
          \/ f.status = "ok"
          \/ f.status = "unreadable" /\ get_file_type(root \o "/" \o f.name) # "source_code"

\* how the run stands with respect to C7 in one state
ErrorsIsolated ==
    /\ ~raised
    /\ pc \in {"walk", "files", "done"}
    /\ pc # "done" => CanProceed
    /\ pc = "done" =>
          /\ walk = <<>> /\ files = {}
          /\ \A f \in NotIgnored(repo) :
                IF Fails(f)
                THEN Logged(PathOf(f)) /\ ~HasEntry(document, PathOf(f))
                ELSE HasEntry(document, PathOf(f)) /\ ~Logged(PathOf(f))

\* C7: a file whose processing raises is logged and left out while the run
\* goes on: the run is never aborted, it has a next step until the document
\* is written and every step leaves less work, so the writing of the
\* document is reached; the document is written only when no directory and
\* no file is left to visit, and it has an entry for each file that is not
\* ignored and was processed without error, in whatever order the files
\* were visited, and none for a file whose processing raised, the error of
\* which was printed.
C7_ErrorIsolation ==
    /\ []ErrorsIsolated
    /\ [][Remaining' < Remaining]_vars

\* the document was written after a size lookup and an extraction had
\* raised and another file had been summarized
C7_FailuresReached ==
    /\ pc = "done"
    /\ \E f, g, h \in NotIgnored(repo) :
          /\ f.status = "no_size"
          /\ g.status = "unreadable" /\ Fails(g)
          /\ ~Fails(h) /\ HasEntry(document, PathOf(h))
          /\ Logged(PathOf(f)) /\ Logged(PathOf(g))

\* C10: after every processed file the file count is the number of
\* summaries, the counts of the types add up to it and the total size is the
\* sum of the sizes of the summarized files; the document states these.
C10_Statistics ==
    /\ total_files = Len(file_summaries)
    /\ CountOf(file_types, DOMAIN file_types) = Len(file_summaries)
    /\ total_size = SizeOf(file_summaries, Len(file_summaries))
    /\ pc = "done" =>
          /\ document[3] = "Total Files: " \o ToStr(Len(file_summaries)) \o "\n"
          /\ document[4] = "Total Size: "
                           \o format_size(SizeOf(file_summaries, Len(file_summaries))) \o "\n\n"

\* C10 restricted to the repositories all of whose source files can be read
C10_StatisticsReadable ==
    (\A f \in repo : f.status # "unreadable") => C10_Statistics

\* the document was written after a size lookup had raised
C10_SizeErrorReached ==
    /\ pc = "done"
    /\ \E f \in NotIgnored(repo) : f.status = "no_size"
    /\ Len(file_summaries) > 0
=============================================================================
